---- MODULE Spec2Model ----
(***************************************************************************)
(* A model of cleverhans/model.py: the abstract Model interface and the    *)
(* KerasModelWrapper that exposes a Keras model's layers by building       *)
(* sub-models and caching them.                                            *)
(*                                                                         *)
(* The wrapped Keras model is a chain of layers that starts with its       *)
(* InputLayer.  A symbolic tensor is the input it is computed from and the *)
(* sequence of primitive operations applied to it, so that the output of a *)
(* layer, the logits and the probabilities are different values whenever   *)
(* they are different computations.                                        *)
(***************************************************************************)
EXTENDS Integers, Sequences, FiniteSets

\* ---- bounds ----
MaxLayers == 2      \* layers of the wrapped model besides its InputLayer
NumNames == 2       \* layer names available to the wrapped model
NumInputs == 2      \* symbolic inputs x
MaxBuilds == 2      \* cap of the construction counters

Names == 1..NumNames
Inputs == 1..NumInputs
InputName == 0
AllNames == {InputName} \cup Names
NoName == -1

VARIABLES
  cls,           \* the class of the wrapper object
  debug,         \* Python's __debug__: whether assert statements run
  layers,        \* self.model.layers, in order
  fprop_cache,   \* self.fprop_cache: (x, train) -> output dictionary
  train,         \* self.train
  modelw_layer,  \* self.modelw_layer: layer name -> sub-model
  modelw,        \* self.modelw: None or the all-layers sub-model
  call,          \* the last operation and its arguments
  ret,           \* what the last operation returned
  exc,           \* the exception the last operation raised, or "none"
  builds,        \* per layer name, the sub-models constructed so far
  modelwBuilds,  \* the all-layers models constructed so far
  fpropCalled    \* whether KerasModelWrapper.fprop has been called

vars == <<cls, debug, layers, fprop_cache, train, modelw_layer, modelw,
          call, ret, exc, builds, modelwBuilds, fpropCalled>>

\* ---- the wrapped Keras model ----

\* The InputLayer of a Keras model; its config has no 'activation' key.
InputLayer == [name |-> InputName, cls |-> "InputLayer", activation |-> "absent"]

\* The layer classes and activations a layer of the wrapped model can have.
LayerKinds ==
  { [cls |-> "Dense", activation |-> "linear"],
    [cls |-> "Dense", activation |-> "softmax"],
    [cls |-> "Activation", activation |-> "softmax"] }

NewLayer(n, k) == [name |-> n, cls |-> k.cls, activation |-> k.activation]

\* Primitive operations of the symbolic graph.
Affine(n) == [f |-> "affine", w |-> n]
Softmax == [f |-> "softmax", w |-> 0]

\* What a layer computes on its input: a Dense layer computes the weighted
\* sum and then its activation; an Activation layer only the activation.
LayerOps(l) ==
  (IF l.cls = "Dense" THEN <<Affine(l.name)>> ELSE <<>>)
    \o (IF l.activation = "softmax" THEN <<Softmax>> ELSE <<>>)

\* layer.output of the layer at position p: the graph from the model input.
RECURSIVE OutputAt(_, _)
OutputAt(ls, p) == IF p = 0 THEN <<>> ELSE OutputAt(ls, p - 1) \o LayerOps(ls[p])

\* model.get_layer(name): the position of the layer, 0 when there is none
\* (Keras raises ValueError).
get_layer(ls, name) ==
  IF \E i \in 1..Len(ls) : ls[i].name = name
    THEN CHOOSE i \in 1..Len(ls) : ls[i].name = name
    ELSE 0

\* A symbolic tensor: a graph applied to an input.
Apply(m, x) == [in |-> x, ops |-> m]

\* ---- return values and exceptions ----
None == <<>>
RetNone == [kind |-> "None", val |-> <<>>]
RetTensor(t) == [kind |-> "tensor", val |-> t]
RetDict(d) == [kind |-> "dict", val |-> d]
RetNames(s) == [kind |-> "names", val |-> s]

Exc(t, m) == [type |-> t, msg |-> m]
NoExc == Exc("none", "")
NoSoftmaxExc == Exc("Exception", "No softmax layers found")
ValueErrorExc == Exc("ValueError", "No such layer")
KeyErrorExc == Exc("KeyError", "")
IndexErrorExc == Exc("IndexError", "list index out of range")
\* NotImplementedError('`m` not implemented')
NotImpl(m) == Exc("NotImplementedError", m)

Called(o, x, l, r) == [op |-> o, x |-> x, layer |-> l, reused |-> r]
\* An argument the call does not take.
NoArg == NoName

\* A call that raises e and changes nothing of the wrapper.
Raise(o, x, l, e) ==
  /\ call' = Called(o, x, l, FALSE)
  /\ ret' = RetNone
  /\ exc' = e
  /\ UNCHANGED <<cls, debug, layers, fprop_cache, train, modelw_layer, modelw,
                 builds, modelwBuilds, fpropCalled>>

\* A call that returns r and changes nothing of the wrapper.
Return(o, x, l, r) ==
  /\ call' = Called(o, x, l, FALSE)
  /\ ret' = r
  /\ exc' = NoExc
  /\ UNCHANGED <<cls, debug, layers, fprop_cache, train, modelw_layer, modelw,
                 builds, modelwBuilds, fpropCalled>>

\* ---- the abstract Model ----

\* dict[key] lookups of the output dictionaries, kept as sequences of
\* <<name, tensor>> pairs in insertion order.
DictHas(d, k) == \E i \in 1..Len(d) : d[i][1] = k
DictGet(d, k) == d[CHOOSE i \in 1..Len(d) : d[i][1] = k][2]

\* Model.set_train (inherited by KerasModelWrapper).
set_train(t) ==
  /\ train' = t
  /\ call' = Called("set_train", NoArg, NoArg, FALSE)
  /\ ret' = RetNone
  /\ exc' = NoExc
  /\ UNCHANGED <<cls, debug, layers, fprop_cache, modelw_layer, modelw,
                 builds, modelwBuilds, fpropCalled>>

\* Model.fprop_layer: a lookup in the cache, KeyError when it misses.
Model_fprop_layer(x, layer) ==
  /\ cls = "Model"
  /\ IF <<x, train>> \in DOMAIN fprop_cache
          /\ DictHas(fprop_cache[<<x, train>>], layer)
       THEN Return("fprop_layer", x, layer,
                   RetTensor(DictGet(fprop_cache[<<x, train>>], layer)))
       ELSE Raise("fprop_layer", x, layer, KeyErrorExc)

Model_fprop_logits(x) ==
  /\ cls = "Model"
  /\ Raise("fprop_logits", x, NoArg, NotImpl("fprop_logits"))

Model_fprop_probs(x) ==
  /\ cls = "Model"
  /\ Raise("fprop_probs", x, NoArg, NotImpl("fprop_probs"))

Model_get_layer_names ==
  /\ cls = "Model"
  /\ Raise("get_layer_names", NoArg, NoArg, NotImpl("get_layer_names"))

\* The exception of Model.fprop on a cache miss: the assert statement calls
\* self.get_layer_names() first, which raises on the abstract class; with
\* assert statements compiled out the final raise is reached.
FpropMissExc(dbg) ==
  IF dbg THEN NotImpl("get_layer_names") ELSE NotImpl("fprop")

Model_fprop(x) ==
  /\ cls = "Model"
  /\ IF <<x, train>> \in DOMAIN fprop_cache
       THEN Return("fprop", x, NoArg, RetDict(fprop_cache[<<x, train>>]))
       ELSE Raise("fprop", x, NoArg, FpropMissExc(debug))

Model_get_loss(x) ==
  /\ cls = "Model"
  /\ Raise("get_loss", x, NoArg, NotImpl("get_loss"))

\* An implementation's fprop stores its output dictionary under (x, train);
\* KerasModelWrapper.fprop never does.
CachePopulate(x) ==
  /\ cls = "Model"
  /\ <<x, train>> \notin DOMAIN fprop_cache
  /\ fprop_cache' =
       [k \in DOMAIN fprop_cache \cup {<<x, train>>} |->
          IF k = <<x, train>> THEN <<<<InputName, Apply(<<>>, x)>>>>
                              ELSE fprop_cache[k]]
  /\ call' = Called("cache", x, NoArg, FALSE)
  /\ ret' = RetNone
  /\ exc' = NoExc
  /\ UNCHANGED <<cls, debug, layers, train, modelw_layer, modelw,
                 builds, modelwBuilds, fpropCalled>>

\* ---- KerasModelWrapper ----

\* `'activation' in cfg and cfg['activation'] == 'softmax'`
IsSoftmax(l) == l.activation # "absent" /\ l.activation = "softmax"

_get_softmax_name_fallback(ls) ==
  IF \E i \in 1..Len(ls) : IsSoftmax(ls[i])
    THEN ls[CHOOSE i \in 1..Len(ls) :
              IsSoftmax(ls[i]) /\ \A j \in 1..(i - 1) : ~IsSoftmax(ls[j])].name
    ELSE ls[Len(ls)].name

\* KerasModelWrapper._get_softmax_name: the name of the first layer, in
\* model.layers order, whose config says softmax; NoName when the loop ends
\* without one (the caller raises "No softmax layers found").
_get_softmax_name(ls) ==
  IF \E i \in 1..Len(ls) : IsSoftmax(ls[i])
    THEN ls[CHOOSE i \in 1..Len(ls) :
              IsSoftmax(ls[i]) /\ \A j \in 1..(i - 1) : ~IsSoftmax(ls[j])].name
    ELSE NoName

\* softmax_layer.inbound_nodes[0].inbound_layers[0].name: in a chain the
\* inbound layer is the previous one; an InputLayer has none (NoName).
InboundName(ls, p) == IF p > 1 THEN ls[p - 1].name ELSE NoName

\* KerasModelWrapper._get_logits_name, given that a softmax layer exists.
_get_logits_name(ls) ==
  InboundName(ls, get_layer(ls, _get_softmax_name(ls)))

CacheHit_never(layer, cache) == FALSE

\* `layer in self.modelw_layer`
CacheHit(layer, cache) == layer \in DOMAIN cache

\* KerasModelWrapper.fprop_layer, also the tail of fprop_logits, fprop_probs
\* and __call__, which reach it with the name they located.
FpropLayer(o, x, layer) ==
  IF CacheHit(layer, modelw_layer)
    THEN /\ call' = Called(o, x, layer, TRUE)
         /\ ret' = RetTensor(Apply(modelw_layer[layer], x))
         /\ exc' = NoExc
         /\ UNCHANGED <<cls, debug, layers, fprop_cache, train, modelw_layer,
                        modelw, builds, modelwBuilds, fpropCalled>>
    ELSE IF get_layer(layers, layer) = 0
      THEN Raise(o, x, layer, ValueErrorExc)
      ELSE LET new_model == OutputAt(layers, get_layer(layers, layer)) IN
           /\ builds[layer] < MaxBuilds
           /\ modelw_layer' =
                [n \in DOMAIN modelw_layer \cup {layer} |->
                   IF n = layer THEN new_model ELSE modelw_layer[n]]
           /\ builds' = [builds EXCEPT ![layer] = @ + 1]
           /\ call' = Called(o, x, layer, FALSE)
           /\ ret' = RetTensor(Apply(new_model, x))
           /\ exc' = NoExc
           /\ UNCHANGED <<cls, debug, layers, fprop_cache, train, modelw,
                          modelwBuilds, fpropCalled>>

KerasModelWrapper_fprop_layer(x, layer) ==
  /\ cls = "KerasModelWrapper"
  /\ FpropLayer("fprop_layer", x, layer)

KerasModelWrapper_fprop_logits(x) ==
  /\ cls = "KerasModelWrapper"
  /\ IF _get_softmax_name(layers) = NoName
       THEN Raise("fprop_logits", x, NoArg, NoSoftmaxExc)
       ELSE IF _get_logits_name(layers) = NoName
         THEN Raise("fprop_logits", x, NoArg, IndexErrorExc)
         ELSE FpropLayer("fprop_logits", x, _get_logits_name(layers))

\* fprop_probs, under the name o of the method the caller invoked.
FpropProbs(o, x) ==
  IF _get_softmax_name(layers) = NoName
    THEN Raise(o, x, NoArg, NoSoftmaxExc)
    ELSE FpropLayer(o, x, _get_softmax_name(layers))

KerasModelWrapper_fprop_probs(x) ==
  /\ cls = "KerasModelWrapper"
  /\ FpropProbs("fprop_probs", x)

\* Model.__call__: self.fprop_probs(x), dispatched on the object's class.
__call__(x) ==
  \/ /\ cls = "Model"
     /\ Raise("__call__", x, NoArg, NotImpl("fprop_probs"))
  \/ /\ cls = "KerasModelWrapper"
     /\ FpropProbs("__call__", x)

\* KerasModelWrapper.get_layer_names
get_layer_names(ls) == [i \in 1..Len(ls) |-> ls[i].name]

KerasModelWrapper_get_layer_names ==
  /\ cls = "KerasModelWrapper"
  /\ Return("get_layer_names", NoArg, NoArg, RetNames(get_layer_names(layers)))

\* KerasModelWrapper._create_modelw: a model whose outputs are the outputs of
\* all the layers the wrapped model has now.
_create_modelw(ls) ==
  [i \in 1..Len(ls) |-> OutputAt(ls, get_layer(ls, get_layer_names(ls)[i]))]

\* zip(a, b): pairs up to the shorter of the two.
Zip(a, b) ==
  [i \in 1..(IF Len(a) < Len(b) THEN Len(a) ELSE Len(b)) |-> <<a[i], b[i]>>]

ModelwIsNone_always(m) == TRUE

\* `self.modelw is None`
ModelwIsNone(m) == m = None

KerasModelWrapper_fprop(x) ==
  /\ cls = "KerasModelWrapper"
  /\ IF ModelwIsNone(modelw)
       THEN /\ modelwBuilds < MaxBuilds
            /\ modelw' = _create_modelw(layers)
            /\ modelwBuilds' = modelwBuilds + 1
       ELSE UNCHANGED <<modelw, modelwBuilds>>
  /\ LET layer_names == get_layer_names(layers)
         outputs == [i \in 1..Len(modelw') |-> Apply(modelw'[i], x)]
     IN  ret' = RetDict(Zip(layer_names, outputs))
  /\ fpropCalled' = TRUE
  /\ call' = Called("fprop", x, NoArg, FALSE)
  /\ exc' = NoExc
  /\ UNCHANGED <<cls, debug, layers, fprop_cache, train, modelw_layer, builds>>

\* ---- the wrapped model changes under the wrapper ----

LayerNamesOf(ls) == {ls[i].name : i \in 1..Len(ls)}

\* model.add(layer): a new last layer, under a name the model does not use.
ModelAdd(n, k) ==
  /\ cls = "KerasModelWrapper"
  /\ Len(layers) - 1 < MaxLayers
  /\ n \notin LayerNamesOf(layers)
  /\ layers' = Append(layers, NewLayer(n, k))
  /\ call' = Called("model.add", NoArg, n, FALSE)
  /\ ret' = RetNone
  /\ exc' = NoExc
  /\ UNCHANGED <<cls, debug, fprop_cache, train, modelw_layer, modelw,
                 builds, modelwBuilds, fpropCalled>>

\* ---- specification ----

\* The Keras models a wrapper can be constructed over.
RECURSIVE ModelsOfLen(_)
ModelsOfLen(n) ==
  IF n = 0 THEN {<<InputLayer>>}
  ELSE {Append(m, NewLayer(nm, k)) :
          m \in ModelsOfLen(n - 1), nm \in Names, k \in LayerKinds}

ValidModels ==
  {m \in UNION {ModelsOfLen(n) : n \in 0..MaxLayers} :
     \A i, j \in 1..Len(m) : i # j => m[i].name # m[j].name}

Init ==
  /\ cls \in {"Model", "KerasModelWrapper"}
  /\ debug \in BOOLEAN
  /\ layers \in (IF cls = "Model" THEN {<<InputLayer>>} ELSE ValidModels)
  /\ fprop_cache = <<>>
  /\ train = FALSE
  /\ modelw_layer = <<>>
  /\ modelw = None
  /\ call = Called("__init__", NoArg, NoArg, FALSE)
  /\ ret = RetNone
  /\ exc = NoExc
  /\ builds = [n \in AllNames |-> 0]
  /\ modelwBuilds = 0
  /\ fpropCalled = FALSE

Next ==
  \/ \E t \in BOOLEAN : set_train(t)
  \/ \E x \in Inputs : __call__(x)
  \/ \E x \in Inputs, l \in AllNames : Model_fprop_layer(x, l)
  \/ \E x \in Inputs : Model_fprop_logits(x)
  \/ \E x \in Inputs : Model_fprop_probs(x)
  \/ Model_get_layer_names
  \/ \E x \in Inputs : Model_fprop(x)
  \/ \E x \in Inputs : Model_get_loss(x)
  \/ \E x \in Inputs : CachePopulate(x)
  \/ \E x \in Inputs, l \in AllNames : KerasModelWrapper_fprop_layer(x, l)
  \/ \E x \in Inputs : KerasModelWrapper_fprop_logits(x)
  \/ \E x \in Inputs : KerasModelWrapper_fprop_probs(x)
  \/ KerasModelWrapper_get_layer_names
  \/ \E x \in Inputs : KerasModelWrapper_fprop(x)
  \/ \E n \in Names, k \in LayerKinds : ModelAdd(n, k)

Spec == Init /\ [][Next]_vars

\* ---- properties ----

Keras == cls = "KerasModelWrapper"
SoftmaxPositions(ls) == {i \in 1..Len(ls) : ls[i].activation = "softmax"}
HasSoftmaxLayer == SoftmaxPositions(layers) # {}
Min(S) == CHOOSE i \in S : \A j \in S : i <= j
Max(S) == CHOOSE i \in S : \A j \in S : i >= j

\* The values fed to the softmax activation of the layer at position p:
\* the layer's output without its final softmax operation.
PreSoftmax(ls, p) == SubSeq(OutputAt(ls, p), 1, Len(OutputAt(ls, p)) - 1)

\* C1: on a model with a softmax layer, fprop_logits(x) succeeds and returns
\* the values fed to the softmax activation, whether softmax is a layer of
\* its own or the activation of the layer that computes the weighted sum.
C1_fprop_logits_returns_logits ==
  (Keras /\ call.op = "fprop_logits" /\ HasSoftmaxLayer) =>
     /\ exc = NoExc
     /\ ret.kind = "tensor"
     /\ ret.val = Apply(PreSoftmax(layers, Min(SoftmaxPositions(layers))), call.x)

\* C2: the softmax layer fprop_probs locates is the last layer of
\* model.layers with activation softmax, and fprop_probs(x) returns that
\* layer's output on x.
C2_fprop_probs_uses_last_softmax ==
  (Keras /\ call.op = "fprop_probs" /\ HasSoftmaxLayer) =>
     /\ exc = NoExc
     /\ call.layer = layers[Max(SoftmaxPositions(layers))].name
     /\ ret.kind = "tensor"
     /\ ret.val = Apply(OutputAt(layers, Max(SoftmaxPositions(layers))), call.x)

LayerCalls == {"fprop_layer", "fprop_logits", "fprop_probs", "__call__"}

\* C3: a sub-model is constructed at most once per layer name: a name has a
\* stored sub-model exactly when one was built for it, a stored sub-model is
\* never dropped, replaced or rebuilt, and a call for a stored name reuses it.
C3_submodel_built_once ==
  /\ [](\A n \in AllNames :
          builds[n] = (IF n \in DOMAIN modelw_layer THEN 1 ELSE 0))
  /\ [][ /\ \A n \in DOMAIN modelw_layer :
               /\ n \in DOMAIN modelw_layer'
               /\ modelw_layer'[n] = modelw_layer[n]
               /\ builds'[n] = builds[n]
         /\ (call'.op \in LayerCalls /\ exc' = NoExc
               /\ call'.layer \in DOMAIN modelw_layer) =>
               /\ call'.reused
               /\ ret'.val = Apply(modelw_layer[call'.layer], call'.x)
       ]_vars

C3_witness ==
  /\ Keras
  /\ call.op \in LayerCalls
  /\ call.reused
  /\ builds[call.layer] = 1
  /\ Cardinality(DOMAIN modelw_layer) > 1

\* C4: modelw is None until the first fprop call, which creates it; it is
\* created once and never replaced or reset afterwards.
C4_modelw_created_once ==
  /\ [](Keras => /\ (modelw = None) = ~fpropCalled
                 /\ modelwBuilds = (IF fpropCalled THEN 1 ELSE 0))
  /\ [][modelw # None => modelw' = modelw]_vars

C4_witness ==
  /\ Keras
  /\ call.op = "fprop"
  /\ modelwBuilds = 1
  /\ Len(modelw) < Len(layers)

\* C5: fprop(x) returns a dictionary whose keys are exactly the names of
\* get_layer_names(), in layer order, each mapped to the output on x of the
\* layer with that name, also after the wrapped model's layers changed.
C5_fprop_exposes_all_layers ==
  (Keras /\ call.op = "fprop") =>
     /\ exc = NoExc
     /\ ret.kind = "dict"
     /\ ret.val = [i \in 1..Len(layers) |->
                     <<layers[i].name, Apply(OutputAt(layers, i), call.x)>>]

\* C6: with no softmax layer in the wrapped model, fprop_probs, fprop_logits
\* and __call__ raise "No softmax layers found" and leave modelw_layer,
\* modelw, fprop_cache and train as they were, building no sub-model.
C6_no_softmax_raises ==
  [][ (Keras /\ ~HasSoftmaxLayer
         /\ call'.op \in {"fprop_probs", "fprop_logits", "__call__"}) =>
        /\ exc' = NoSoftmaxExc
        /\ UNCHANGED <<modelw_layer, modelw, fprop_cache, train, builds>>
    ]_vars

C6_witness ==
  /\ Keras
  /\ ~HasSoftmaxLayer
  /\ call.op \in {"fprop_probs", "fprop_logits", "__call__"}
  /\ exc = NoSoftmaxExc
  /\ modelw # None
  /\ DOMAIN modelw_layer # {}
  /\ train

\* C7: on the abstract Model, fprop(x) without a cache entry for (x, train)
\* raises NotImplementedError('`fprop` not implemented') and leaves
\* fprop_cache unchanged; fprop_logits, fprop_probs, get_layer_names and
\* get_loss always raise NotImplementedError.
C7_abstract_model_not_implemented ==
  [][ cls = "Model" =>
        /\ (call'.op = "fprop" /\ <<call'.x, train>> \notin DOMAIN fprop_cache) =>
              /\ exc' = NotImpl("fprop")
              /\ fprop_cache' = fprop_cache
        /\ (call'.op \in {"fprop_logits", "fprop_probs", "get_layer_names",
                          "get_loss"}) =>
              exc'.type = "NotImplementedError"
    ]_vars

====
